---------------------------- MODULE Spec2Model ----------------------------
(***************************************************************************)
(* A model of the core library of uv-workspace-demo:                      *)
(*   - core/database.py      Database and its session() context manager   *)
(*   - core/cloud_manager.py AWSCloudManager (S3) and the CloudManager     *)
(*                           facade with its lazily constructed client     *)
(*                                                                         *)
(* Three specifications share the module, one per part of the library:    *)
(*   SpecDB    session scopes of one Database                              *)
(*   SpecCloud one CloudManager used from a single thread, its            *)
(*             AWSCloudManager and the S3 store and local files behind it  *)
(*   SpecRace  several threads making their first call on a CloudManager   *)
(* Each leaves the variables of the other parts at fixed values.  A        *)
(* definition named after another with a suffix (ExceptClauseSwallow,      *)
(* transfer_objectKeepKey, ...) is a faulty variant of it, kept to show    *)
(* that the properties below tell the code from the variant.               *)
(***************************************************************************)
EXTENDS Naturals, Sequences, FiniteSets

VARIABLES
    \* ---- Database (database.py)
    readonly_url,   \* the readonly_url argument Database was constructed with
    _db_ro,         \* Database._db_ro: the read-only engine, or None
    _session_ro,    \* Database._session_ro: the read-only sessionmaker, or None
    dbpc,           \* where the caller's "with db.session(...)" statement is
    readonly,       \* the readonly argument of the current / last session() call
    _session,       \* session()'s local _session: index into sessions, 0 if unbound
    sessions,       \* every Session object created so far, with the calls made on it
    sessionsBefore, \* Len(sessions) when the current / last session() call started
    bodyOutcome,    \* how the with-body of the last scope ended ("none": it never ran)
    raised,         \* what the last with-statement raised to its caller (NoExc: nothing)
    nScopes,        \* number of session() calls made so far
    \* ---- CloudManager and AWSCloudManager (cloud_manager.py)
    _manager,       \* CloudManager._manager: index into managers, 0 for None
    managers,       \* every AWSCloudManager object constructed so far; each
                    \* holds its _s3_client: an S3 client number, 0 for None
    nS3Clients,     \* number of boto3 S3 clients constructed so far
    nCalls,         \* number of CloudManager calls made so far
    store,          \* the objects in S3: <<bucket, key>> -> content, or None
    fs,             \* the local files: path -> content, or None
    last,           \* the last CloudManager call: its operation and arguments,
                    \* the call its client received, the S3 API calls made, the
                    \* store before it, its result and the exception it raised
    \* ---- threads making their first call on one CloudManager
    tpc,            \* where each thread is in its call
    sawNone,        \* whether the thread's "if not self._manager" found None
    sawNoClient,    \* whether the thread's "if not self._s3_client" found None
    tmanager,       \* the object the manager property returned to the thread
    tclient         \* the S3 client the s3_client property returned to it

dbVars == <<readonly_url, _db_ro, _session_ro, dbpc, readonly, _session,
            sessions, sessionsBefore, bodyOutcome, raised, nScopes>>

cmVars == <<_manager, managers, nS3Clients>>

s3Vars == <<store, fs, last, nCalls>>

thVars == <<tpc, sawNone, sawNoClient, tmanager, tclient>>

vars == <<dbVars, cmVars, s3Vars, thVars>>

-----------------------------------------------------------------------------
(* Bounds of the model *)

\* Number of session() scopes one behaviour opens, one after the other.
MaxScopes == 2

\* Number of calls one behaviour makes on the CloudManager.
MaxCalls == 2

\* Number of threads that make their first call on the same CloudManager.
NThreads == 2

-----------------------------------------------------------------------------
(* Python values *)

\* How a call that may fail ends: it returns ("ok"), or it raises an exception
\* whose class derives from Exception (RuntimeError, SQLAlchemyError, ...) or
\* from BaseException only (KeyboardInterrupt, SystemExit, ...).
Outcomes == {"ok", "Exception", "BaseException"}

None == "None"

\* bool(v) for the values the model passes to "if v": None and "" are falsy,
\* a non-empty string, an Engine and a sessionmaker are truthy.
Truthy(v) == v \notin {None, ""}

\* An exception object in flight: where it was raised, and its class.
Exc(origin, cls) == [origin |-> origin, cls |-> cls]
NoExc == Exc("none", "none")

-----------------------------------------------------------------------------
(* Database.__init__ *)

\* The readonly_url values a caller may pass: omitted / None, an empty string
\* (an unset environment variable read with a "" default), a real URL.
ReadonlyUrls == {None, "", "sqlite:///ro.db"}

\* create_engine(readonly_url, echo=False) if readonly_url else None
DbRo(url) == IF Truthy(url) THEN "Engine(ro)" ELSE None

\* sessionmaker(bind=self._db_ro, ...) if self._db_ro else None
SessionRo(db_ro) == IF Truthy(db_ro) THEN "sessionmaker(ro)" ELSE None

-----------------------------------------------------------------------------
(* Database.session: the part before the try statement *)

\* Variant: falls back to the write pool instead of raising.
SelectMakerFallback(ro, session_ro) ==
    IF ro /\ Truthy(session_ro) THEN "ro" ELSE "write"

\* Variant: the two sessionmakers exchanged.
SelectMakerSwapped(ro, session_ro) ==
    IF ro /\ Truthy(session_ro) THEN "write"
    ELSE IF ~ro THEN (IF Truthy(session_ro) THEN "ro" ELSE "write")
    ELSE "raise"

\* Which sessionmaker the if / elif / else chain calls, or "raise" for the
\* RuntimeError branch.
SelectMaker(ro, session_ro) ==
    IF ro /\ Truthy(session_ro) THEN "ro"
    ELSE IF ~ro THEN "write"
    ELSE "raise"

\* RuntimeError("Readonly connection not configured. ...")
ConfigError == Exc("config", "Exception")

\* A fresh Session object of a pool: nothing has been called on it yet.
NewSession(pool) == [pool |-> pool, calls |-> <<>>]

-----------------------------------------------------------------------------
(* Database.session: try / except Exception / finally, from the resumption  *)
(* of the generator at its yield.  Each clause maps the state of the        *)
(* statement so far, [calls, exc], to the state after the clause: calls is  *)
(* the sequence of method calls made on _session, exc the exception that is *)
(* propagating (NoExc if none).  body, co, ro, cl are the outcomes of the   *)
(* with-body, _session.commit(), _session.rollback() and _session.close().  *)

Call(method, outcome) == [method |-> method, outcome |-> outcome]

\* Variant: an exception of commit is lost.
TryBlockSwallowCommit(body, co) ==
    IF body # "ok"
    THEN [calls |-> <<>>, exc |-> Exc("body", body)]
    ELSE [calls |-> <<Call("commit", co)>>, exc |-> NoExc]

\* try: yield _session; _session.commit()
TryBlock(body, co) ==
    IF body # "ok"
    THEN [calls |-> <<>>, exc |-> Exc("body", body)]
    ELSE IF co = "ok"
    THEN [calls |-> <<Call("commit", co)>>, exc |-> NoExc]
    ELSE [calls |-> <<Call("commit", co)>>, exc |-> Exc("commit", co)]

\* Variant: no "raise" after the rollback.
ExceptClauseSwallow(t, ro) ==
    IF t.exc.cls = "Exception"
    THEN [calls |-> Append(t.calls, Call("rollback", ro)),
          exc   |-> IF ro = "ok" THEN NoExc ELSE Exc("rollback", ro)]
    ELSE t

\* except Exception: _session.rollback(); raise
ExceptClause(t, ro) ==
    IF t.exc.cls = "Exception"
    THEN [calls |-> Append(t.calls, Call("rollback", ro)),
          exc   |-> IF ro = "ok" THEN t.exc ELSE Exc("rollback", ro)]
    ELSE t

\* Variant: close only when nothing is propagating.
FinallyClauseOnSuccess(e, cl) ==
    IF e.exc = NoExc
    THEN [calls |-> Append(e.calls, Call("close", cl)),
          exc   |-> IF cl = "ok" THEN e.exc ELSE Exc("close", cl)]
    ELSE e

\* finally: _session.close()
FinallyClause(e, cl) ==
    [calls |-> Append(e.calls, Call("close", cl)),
     exc   |-> IF cl = "ok" THEN e.exc ELSE Exc("close", cl)]

\* The whole statement.
TryStatement(body, co, ro, cl) ==
    FinallyClause(ExceptClause(TryBlock(body, co), ro), cl)

-----------------------------------------------------------------------------
(* The Database specification *)

InitDB ==
    /\ readonly_url \in ReadonlyUrls
    /\ _db_ro = DbRo(readonly_url)
    /\ _session_ro = SessionRo(_db_ro)
    /\ dbpc = "idle"
    /\ readonly = FALSE
    /\ _session = 0
    /\ sessions = <<>>
    /\ sessionsBefore = 0
    /\ bodyOutcome = "none"
    /\ raised = NoExc
    /\ nScopes = 0
    /\ _manager = 0
    /\ managers = <<>>
    /\ nS3Clients = 0
    /\ nCalls = 0
    /\ store = <<>>
    /\ fs = <<>>
    /\ last = <<>>
    /\ tpc = <<>>
    /\ sawNone = <<>>
    /\ sawNoClient = <<>>
    /\ tmanager = <<>>
    /\ tclient = <<>>

\* "with db.session(readonly=ro) as session:" is entered: the generator runs
\* up to its yield, or raises the RuntimeError.
SessionEnter(ro) ==
    /\ dbpc \in {"idle", "exited"}
    /\ nScopes < MaxScopes
    /\ nScopes' = nScopes + 1
    /\ readonly' = ro
    /\ sessionsBefore' = Len(sessions)
    /\ bodyOutcome' = "none"
    /\ IF SelectMaker(ro, _session_ro) = "raise"
       THEN /\ raised' = ConfigError
            /\ dbpc' = "exited"
            /\ _session' = 0
            /\ UNCHANGED sessions
       ELSE /\ sessions' = Append(sessions, NewSession(SelectMaker(ro, _session_ro)))
            /\ _session' = Len(sessions) + 1
            /\ raised' = NoExc
            /\ dbpc' = "yielded"
    /\ UNCHANGED <<readonly_url, _db_ro, _session_ro>>
    /\ UNCHANGED <<cmVars, s3Vars, thVars>>

\* The with-body ends with outcome body and the generator is resumed (or the
\* exception thrown into it) at the yield; the try statement runs to its end.
SessionExit(body, co, ro, cl) ==
    /\ dbpc = "yielded"
    /\ LET r == TryStatement(body, co, ro, cl) IN
        /\ sessions' = [sessions EXCEPT ![_session].calls = r.calls]
        /\ raised' = r.exc
    /\ bodyOutcome' = body
    /\ dbpc' = "exited"
    /\ UNCHANGED <<readonly_url, _db_ro, _session_ro, readonly, _session,
                   sessionsBefore, nScopes>>
    /\ UNCHANGED <<cmVars, s3Vars, thVars>>

NextDB ==
    \/ \E ro \in BOOLEAN : SessionEnter(ro)
    \/ \E ro, cl, co, body \in Outcomes : SessionExit(body, co, ro, cl)

SpecDB == InitDB /\ [][NextDB]_vars

-----------------------------------------------------------------------------
(* Reading the record of a scope *)

\* The Session object of the current / last scope (only when _session # 0).
Cur == sessions[_session]

MethodCalls(s, m) == {i \in DOMAIN s.calls : s.calls[i].method = m}
WasCalled(s, m) == MethodCalls(s, m) # {}
Returned(s, m) == \E i \in MethodCalls(s, m) : s.calls[i].outcome = "ok"
Raising(s, m) == \E i \in MethodCalls(s, m) : s.calls[i].outcome # "ok"

\* A scope whose body ran has been left.
ScopeLeft == dbpc = "exited" /\ bodyOutcome # "none"

-----------------------------------------------------------------------------
(* C1 *)

\* C1 as stated: when the body finishes without raising the session is
\* committed and not rolled back; when the body raises, the session is rolled
\* back, commit is never called and the body's exception reaches the caller.
C1_Original ==
    ScopeLeft =>
        /\ bodyOutcome = "ok" =>
              Returned(Cur, "commit") /\ ~WasCalled(Cur, "rollback")
        /\ bodyOutcome # "ok" =>
              /\ WasCalled(Cur, "rollback")
              /\ ~WasCalled(Cur, "commit")
              /\ raised = Exc("body", bodyOutcome)

\* C1 amended: a body that finishes without raising has commit called, and
\* the session is committed and not rolled back when commit returns; a body
\* that raises never has commit called; if what it raised is an Exception,
\* rollback is called, and the same exception reaches the caller when
\* rollback and close both return; if it is a BaseException only, rollback is
\* not called, and the same exception reaches the caller when close returns.
C1_Amended ==
    ScopeLeft =>
        /\ bodyOutcome = "ok" =>
              /\ WasCalled(Cur, "commit")
              /\ Returned(Cur, "commit") =>
                    ~WasCalled(Cur, "rollback") /\ ~Raising(Cur, "commit")
        /\ bodyOutcome # "ok" => ~WasCalled(Cur, "commit")
        /\ bodyOutcome = "Exception" =>
              /\ Cardinality(MethodCalls(Cur, "rollback")) = 1
              /\ Returned(Cur, "rollback") /\ Returned(Cur, "close") =>
                    raised = Exc("body", bodyOutcome)
        /\ bodyOutcome = "BaseException" =>
              /\ ~WasCalled(Cur, "rollback")
              /\ Returned(Cur, "close") => raised = Exc("body", bodyOutcome)

\* A body raised an Exception, rollback and close returned, and the caller
\* got the body's exception.
C1_Witness ==
    /\ ScopeLeft
    /\ bodyOutcome = "Exception"
    /\ Returned(Cur, "rollback")
    /\ Returned(Cur, "close")
    /\ raised = Exc("body", "Exception")

-----------------------------------------------------------------------------
(* C2 *)

\* C2: every Session created is closed exactly once on every exit path of
\* its scope, close is the last call made on it (after the commit or
\* rollback attempt, never before), and outside a running scope no created
\* session is left without its close.
C2_ClosedOnce ==
    \A i \in DOMAIN sessions :
        IF dbpc = "yielded" /\ i = _session
        THEN sessions[i].calls = <<>>
        ELSE /\ Cardinality(MethodCalls(sessions[i], "close")) = 1
             /\ sessions[i].calls[Len(sessions[i].calls)].method = "close"

\* A scope was left on the path where rollback itself raised, and close was
\* still called after it.
C2_Witness ==
    /\ ScopeLeft
    /\ Raising(Cur, "rollback")
    /\ WasCalled(Cur, "close")

-----------------------------------------------------------------------------
(* C3 *)

\* C3: a session(readonly=True) call on a Database constructed without a
\* read-only URL raises the configuration error at once: no Session is
\* created from either pool, no method of any Session is called, and the
\* body never runs.
C3_NoFallback ==
    [][(nScopes' = nScopes + 1 /\ readonly' /\ ~Truthy(readonly_url)) =>
          /\ sessions' = sessions
          /\ _session' = 0
          /\ raised' = ConfigError
          /\ dbpc' = "exited"
          /\ bodyOutcome' = "none"]_vars

\* Such a call has been made, after an earlier write scope created a Session.
C3_Witness ==
    /\ dbpc = "exited"
    /\ readonly
    /\ ~Truthy(readonly_url)
    /\ raised = ConfigError
    /\ Len(sessions) = 1

-----------------------------------------------------------------------------
(* C4 *)

\* C4: a scope that starts creates exactly one Session; with readonly=False
\* it comes from the write pool, also when a read-only pool is configured,
\* and with readonly=True and a read-only pool it comes from that pool.
C4_Routing ==
    (nScopes > 0 /\ (~readonly \/ Truthy(readonly_url))) =>
        /\ Len(sessions) = sessionsBefore + 1
        /\ _session = Len(sessions)
        /\ Cur.pool = IF readonly THEN "ro" ELSE "write"

\* A write scope is running on a Database that has a read-only pool.
C4_Witness ==
    /\ dbpc = "yielded"
    /\ ~readonly
    /\ Truthy(_session_ro)
    /\ Cur.pool = "write"

-----------------------------------------------------------------------------
(* C10 *)

\* C10 as stated: when the body finishes normally and commit raises, the
\* session is rolled back, then closed, and the commit's exception reaches
\* the caller; a session is never both committed and rolled back, and a
\* failed commit is never reported as success.
C10_Original ==
    ScopeLeft =>
        /\ (bodyOutcome = "ok" /\ Raising(Cur, "commit")) =>
              /\ [i \in DOMAIN Cur.calls |-> Cur.calls[i].method]
                    = <<"commit", "rollback", "close">>
              /\ raised = Exc("commit", Cur.calls[1].outcome)
        /\ ~(Returned(Cur, "commit") /\ Returned(Cur, "rollback"))
        /\ Raising(Cur, "commit") => raised # NoExc

\* C10 amended: when the body finishes normally and commit raises an
\* Exception, rollback is called, then close, and the commit's exception
\* reaches the caller unless rollback or close itself raises (then that later
\* exception does); when commit raises a BaseException only, close alone is
\* called; a session is never both committed and rolled back, and a failed
\* commit is never reported as success.
C10_Amended ==
    ScopeLeft =>
        /\ (bodyOutcome = "ok" /\ Raising(Cur, "commit")) =>
              /\ Cur.calls[1].outcome = "Exception" =>
                    /\ [i \in DOMAIN Cur.calls |-> Cur.calls[i].method]
                          = <<"commit", "rollback", "close">>
                    /\ Returned(Cur, "rollback") /\ Returned(Cur, "close") =>
                          raised = Exc("commit", "Exception")
                    /\ Raising(Cur, "close") =>
                          raised = Exc("close", Cur.calls[3].outcome)
                    /\ Raising(Cur, "rollback") /\ Returned(Cur, "close") =>
                          raised = Exc("rollback", Cur.calls[2].outcome)
              /\ Cur.calls[1].outcome = "BaseException" =>
                    [i \in DOMAIN Cur.calls |-> Cur.calls[i].method]
                          = <<"commit", "close">>
        /\ ~(Returned(Cur, "commit") /\ Returned(Cur, "rollback"))
        /\ Raising(Cur, "commit") => raised # NoExc

\* The body finished, commit raised an Exception, rollback and close
\* returned, and the caller got the commit's exception.
C10_Witness ==
    /\ ScopeLeft
    /\ bodyOutcome = "ok"
    /\ Raising(Cur, "commit")
    /\ Returned(Cur, "rollback")
    /\ Returned(Cur, "close")
    /\ raised = Exc("commit", "Exception")


-----------------------------------------------------------------------------
(* Names, objects and files of the cloud part.  A str is a sequence of      *)
(* one-character strings, so that formatting and parsing a CopySource are   *)
(* computed and not assumed.                                                *)

\* The buckets that exist in S3 (a bucket name holds no "/").
S3Buckets == {<<"a">>, <<"b">>}

\* The values callers pass as bucket_name, object_key, file_path and prefix.
\* Python does not tell one str from another: the key "a" is also the name of
\* a bucket and the path of a local file.
BucketArgs == S3Buckets
KeyArgs == {<<"a">>, <<"a", "/", "b">>}
PathArgs == {<<"a">>, <<"p">>}
PrefixArgs == {<<>>, <<"a", "/">>}

\* The contents an object or a file may have.
Contents == {"x", "y"}

\* The object at <<bucket, key>> of an S3 store, None if there is none.
Object(st, bucket, key) ==
    IF <<bucket, key>> \in DOMAIN st THEN st[<<bucket, key>>] ELSE None

\* The content of a local file, None if there is no such file.
File(files, path) == IF path \in DOMAIN files THEN files[path] ELSE None

\* str.startswith
StartsWith(str, prefix) ==
    Len(prefix) <= Len(str) /\ SubSeq(str, 1, Len(prefix)) = prefix

-----------------------------------------------------------------------------
(* The state an operation works on and leaves behind:                       *)
(*   _manager, managers, nS3Clients, store, fs  as the variables;           *)
(*   api     the S3 API calls made so far, each with its outcome;           *)
(*   exc     the exception propagating out of the operation, or NoExc;      *)
(*   result  the value the operation returns (None but for list_dir).       *)
(* fault is TRUE when the provider fails a request that is otherwise valid  *)
(* (network failure, permission denial, throttling).                        *)

ApiCall(api, args, outcome) == [api |-> api, args |-> args, outcome |-> outcome]

\* The state after an S3 API call with the given outcome and new store.
After(w, api, args, outcome, st) ==
    [w EXCEPT !.store = IF outcome = "ok" THEN st ELSE @,
              !.api = Append(@, ApiCall(api, args, outcome)),
              !.exc = IF outcome = "ok" THEN NoExc ELSE Exc(api, outcome)]

\* S3Client.upload_file(Filename, Bucket, Key): reads the local file and puts
\* its content at <<Bucket, Key>>.
upload_file(w, Filename, Bucket, Key, fault) ==
    LET outcome == IF File(w.fs, Filename) = None THEN "FileNotFoundError"
                   ELSE IF Bucket \notin S3Buckets THEN "NoSuchBucket"
                   ELSE IF fault THEN "ProviderError"
                   ELSE "ok"
    IN After(w, "upload_file", <<Filename, Bucket, Key>>, outcome,
             [w.store EXCEPT ![<<Bucket, Key>>] = File(w.fs, Filename)])

\* S3Client.download_file(Bucket, Key, Filename): writes the object's content
\* to the local file.
download_file(w, Bucket, Key, Filename, fault) ==
    LET outcome == IF Bucket \notin S3Buckets THEN "NoSuchBucket"
                   ELSE IF Object(w.store, Bucket, Key) = None THEN "NoSuchKey"
                   ELSE IF fault THEN "ProviderError"
                   ELSE "ok"
        r == After(w, "download_file", <<Bucket, Key, Filename>>, outcome, w.store)
    IN IF outcome = "ok"
       THEN [r EXCEPT !.fs = [@ EXCEPT ![Filename] = Object(w.store, Bucket, Key)]]
       ELSE r

\* The f-string of transfer_object: f"{bucket_name}/{object_key}"
CopySource(bucket_name, object_key) == bucket_name \o <<"/">> \o object_key

\* S3 reads a CopySource string as <bucket>/<key>: the bucket ends at the
\* first "/".
FirstSlash(str) ==
    CHOOSE i \in 1..Len(str) :
        str[i] = "/" /\ \A j \in 1..(i - 1) : str[j] # "/"

ParseCopySource(str) ==
    [Bucket |-> SubSeq(str, 1, FirstSlash(str) - 1),
     Key    |-> SubSeq(str, FirstSlash(str) + 1, Len(str))]

\* S3Client.copy_object(Bucket, Key, CopySource): a server-side copy.  S3
\* rejects a request that copies an object onto itself without changing its
\* metadata (InvalidRequest), and a failed copy leaves the store as it was.
copy_object(w, Bucket, Key, copy_source, fault) ==
    LET src == ParseCopySource(copy_source)
        outcome == IF Bucket \notin S3Buckets \/ src.Bucket \notin S3Buckets
                   THEN "NoSuchBucket"
                   ELSE IF Object(w.store, src.Bucket, src.Key) = None
                   THEN "NoSuchKey"
                   ELSE IF <<src.Bucket, src.Key>> = <<Bucket, Key>>
                   THEN "InvalidRequest"
                   ELSE IF fault THEN "ProviderError"
                   ELSE "ok"
    IN After(w, "copy_object", <<Bucket, Key, copy_source>>, outcome,
             [w.store EXCEPT ![<<Bucket, Key>>] = Object(w.store, src.Bucket, src.Key)])

\* S3Client.delete_object(Bucket, Key): succeeds also when there is no such
\* object.
s3_delete_object(w, Bucket, Key, fault) ==
    LET outcome == IF Bucket \notin S3Buckets THEN "NoSuchBucket"
                   ELSE IF fault THEN "ProviderError"
                   ELSE "ok"
    IN After(w, "delete_object", <<Bucket, Key>>, outcome,
             [w.store EXCEPT ![<<Bucket, Key>>] = None])

\* paginator.paginate(Bucket, Prefix), every page read: the keys of the
\* bucket that start with the prefix.
list_objects_v2(w, Bucket, Prefix, fault) ==
    LET outcome == IF Bucket \notin S3Buckets THEN "NoSuchBucket"
                   ELSE IF fault THEN "ProviderError"
                   ELSE "ok"
        r == After(w, "list_objects_v2", <<Bucket, Prefix>>, outcome, w.store)
    IN IF outcome = "ok"
       THEN [r EXCEPT !.result =
                {k \in KeyArgs : /\ Object(w.store, Bucket, k) # None
                                 /\ StartsWith(k, Prefix)}]
       ELSE r

-----------------------------------------------------------------------------
(* AWSCloudManager *)

\* AWSCloudManager.__init__: no S3 client yet.
AWSCloudManagerInit == [_s3_client |-> 0]

\* AWSCloudManager.s3_client, on the object CloudManager._manager refers to:
\* constructs the boto3 client on first use and caches it.
\* The branch taken when _s3_client is None: session.client("s3", ...)
S3ClientConstruct(w, self) ==
    [w EXCEPT !.managers[self]._s3_client = w.nS3Clients + 1,
              !.nS3Clients = @ + 1]

\* The property, run without interruption.
s3_client(w) ==
    IF w.managers[w._manager]._s3_client = 0
    THEN S3ClientConstruct(w, w._manager)
    ELSE w

upload_object(w, file_path, bucket_name, object_key, fault) ==
    upload_file(s3_client(w), file_path, bucket_name, object_key, fault)

download_object(w, bucket_name, object_key, file_path, fault) ==
    download_file(s3_client(w), bucket_name, object_key, file_path, fault)

delete_object(w, bucket_name, object_key, fault) ==
    s3_delete_object(s3_client(w), bucket_name, object_key, fault)

\* upload_object(bucket_name, object_key, dest_object_key), then the delete
\* unless the upload raised.
move_object(w, bucket_name, object_key, dest_object_key, delete_source, f1, f2) ==
    LET u == upload_object(w, bucket_name, object_key, dest_object_key, f1)
    IN IF u.exc = NoExc /\ delete_source
       THEN delete_object(u, bucket_name, object_key, f2)
       ELSE u

\* Variant: copies to object_key of the destination bucket.
transfer_objectKeepKey(w, bucket_name, object_key, dest_bucket_name, dest_object_key, delete_source, f1, f2) ==
    LET c == copy_object(s3_client(w), dest_bucket_name, object_key,
                         CopySource(bucket_name, object_key), f1)
    IN IF c.exc = NoExc /\ delete_source
       THEN delete_object(c, bucket_name, object_key, f2)
       ELSE c

\* Variant: the delete also runs after a failed copy.
transfer_objectDeleteAlways(w, bucket_name, object_key, dest_bucket_name, dest_object_key, delete_source, f1, f2) ==
    LET c == copy_object(s3_client(w), dest_bucket_name, dest_object_key,
                         CopySource(bucket_name, object_key), f1)
    IN IF delete_source
       THEN [delete_object(c, bucket_name, object_key, f2) EXCEPT
                !.exc = IF c.exc # NoExc THEN c.exc ELSE @]
       ELSE c

\* copy_object(...), then the delete unless the copy raised.
transfer_object(w, bucket_name, object_key, dest_bucket_name, dest_object_key, delete_source, f1, f2) ==
    LET c == copy_object(s3_client(w), dest_bucket_name, dest_object_key,
                         CopySource(bucket_name, object_key), f1)
    IN IF c.exc = NoExc /\ delete_source
       THEN delete_object(c, bucket_name, object_key, f2)
       ELSE c

\* The generator of list_dir, read to its end by the caller.
list_dir(w, bucket_name, prefix, fault) ==
    list_objects_v2(s3_client(w), bucket_name, prefix, fault)

\* The method of AWSCloudManager a forwarded call runs.
Dispatch(w, call, f1, f2) ==
    CASE call.op = "upload_object" ->
            upload_object(w, call.args[1], call.args[2], call.args[3], f1)
      [] call.op = "download_object" ->
            download_object(w, call.args[1], call.args[2], call.args[3], f1)
      [] call.op = "move_object" ->
            move_object(w, call.args[1], call.args[2], call.args[3],
                        call.args[4], f1, f2)
      [] call.op = "transfer_object" ->
            transfer_object(w, call.args[1], call.args[2], call.args[3],
                            call.args[4], call.args[5], f1, f2)
      [] call.op = "delete_object" ->
            delete_object(w, call.args[1], call.args[2], f1)
      [] call.op = "list_dir" ->
            list_dir(w, call.args[1], call.args[2], f1)

-----------------------------------------------------------------------------
(* CloudManager *)

\* Variant: the construction tests _manager again (as under a lock).
ManagerConstructIfNone(w) ==
    IF w._manager # 0 THEN w
    ELSE [w EXCEPT !.managers = Append(@, AWSCloudManagerInit),
                   !._manager = Len(w.managers) + 1]

\* The branch of the manager property taken when _manager is None, for
\* CloudProvider.AWS: self._manager = AWSCloudManager(self._config)
ManagerConstruct(w) ==
    [w EXCEPT !.managers = Append(@, AWSCloudManagerInit),
              !._manager = Len(w.managers) + 1]

\* Variant: constructs a client on every access.
managerNotCached(w) == ManagerConstruct(w)

\* CloudManager.manager, run without interruption.
manager(w) == IF w._manager = 0 THEN ManagerConstruct(w) ELSE w

\* What each CloudManager method passes to the same-named method of
\* self.manager.
Forward(op, args) == [op |-> op, args |-> args]

CloudManager_upload_object(file_path, bucket_name, object_key) ==
    Forward("upload_object", <<file_path, bucket_name, object_key>>)

CloudManager_download_object(bucket_name, object_key, file_path) ==
    Forward("download_object", <<bucket_name, object_key, file_path>>)

CloudManager_move_object(bucket_name, object_key, dest_object_key, delete_source) ==
    Forward("move_object",
            <<bucket_name, object_key, dest_object_key, delete_source>>)

CloudManager_transfer_object(bucket_name, object_key, dest_bucket_name, dest_object_key, delete_source) ==
    Forward("transfer_object",
            <<bucket_name, object_key, dest_bucket_name, dest_object_key,
              delete_source>>)

CloudManager_delete_object(bucket_name, object_key) ==
    Forward("delete_object", <<bucket_name, object_key>>)

CloudManager_list_dir(bucket_name, prefix) ==
    Forward("list_dir", <<bucket_name, prefix>>)

-----------------------------------------------------------------------------
(* The CloudManager specification: one CloudManager(CloudProvider.AWS, ...)  *)
(* used from a single thread.                                               *)

NoCall == [op |-> "none", args |-> <<>>, client |-> 0,
           forwarded |-> Forward("none", <<>>), api |-> <<>>,
           before |-> <<>>, result |-> None, exc |-> NoExc]

\* The objects S3 holds when the CloudManager is constructed: none, or two
\* that some earlier run left there.
InitialStores ==
    {[l \in S3Buckets \X KeyArgs |-> None],
     [l \in S3Buckets \X KeyArgs |->
        IF l = <<(<<"a">>), (<<"a">>)>> THEN "x"
        ELSE IF l = <<(<<"b">>), (<<"a", "/", "b">>)>> THEN "y"
        ELSE None]}

\* The local files when the CloudManager is constructed.
LocalFiles ==
    {[p \in PathArgs |-> IF p = <<"a">> THEN "x" ELSE "y"],
     [p \in PathArgs |-> IF p = <<"a">> THEN None ELSE "x"]}

InitCloud ==
    /\ _manager = 0
    /\ managers = <<>>
    /\ nS3Clients = 0
    /\ store \in InitialStores
    /\ fs \in LocalFiles
    /\ last = NoCall
    /\ nCalls = 0
    /\ tpc = <<>>
    /\ sawNone = <<>>
    /\ sawNoClient = <<>>
    /\ tmanager = <<>>
    /\ tclient = <<>>
    /\ readonly_url = None
    /\ _db_ro = None
    /\ _session_ro = None
    /\ dbpc = "idle"
    /\ readonly = FALSE
    /\ _session = 0
    /\ sessions = <<>>
    /\ sessionsBefore = 0
    /\ bodyOutcome = "none"
    /\ raised = NoExc
    /\ nScopes = 0

\* The state an operation starts from.
World ==
    [_manager |-> _manager, managers |-> managers, nS3Clients |-> nS3Clients,
     store |-> store, fs |-> fs, api |-> <<>>, exc |-> NoExc, result |-> None]

\* A CloudManager method is called as op(args) and forwards call: the
\* manager property runs, then the client's method, with f1 and f2 the
\* provider's faults on the first and second S3 request.
Operation(op, args, call, f1, f2) ==
    \E m \in {manager(World)} :
    \E r \in {Dispatch(m, call, f1, f2)} :
       /\ _manager' = r._manager
       /\ managers' = r.managers
       /\ nS3Clients' = r.nS3Clients
       /\ store' = r.store
       /\ fs' = r.fs
       /\ last' = [op |-> op, args |-> args, client |-> m._manager,
                   forwarded |-> call, api |-> r.api, before |-> store,
                   result |-> r.result, exc |-> r.exc]
       /\ nCalls' = nCalls + 1
       /\ UNCHANGED <<dbVars, thVars>>

Upload(file_path, bucket_name, object_key, f1) ==
    /\ nCalls < MaxCalls
    /\ Operation("upload_object", <<file_path, bucket_name, object_key>>,
                 CloudManager_upload_object(file_path, bucket_name, object_key),
                 f1, FALSE)

Download(bucket_name, object_key, file_path, f1) ==
    /\ nCalls < MaxCalls
    /\ Operation("download_object", <<bucket_name, object_key, file_path>>,
                 CloudManager_download_object(bucket_name, object_key, file_path),
                 f1, FALSE)

Move(bucket_name, object_key, dest_object_key, delete_source, f1, f2) ==
    /\ nCalls < MaxCalls
    /\ Operation("move_object",
                 <<bucket_name, object_key, dest_object_key, delete_source>>,
                 CloudManager_move_object(bucket_name, object_key,
                                          dest_object_key, delete_source),
                 f1, f2)

Transfer(bucket_name, object_key, dest_bucket_name, dest_object_key, delete_source, f1, f2) ==
    /\ nCalls < MaxCalls
    /\ Operation("transfer_object",
                 <<bucket_name, object_key, dest_bucket_name, dest_object_key,
                   delete_source>>,
                 CloudManager_transfer_object(bucket_name, object_key,
                                              dest_bucket_name, dest_object_key,
                                              delete_source),
                 f1, f2)

Delete(bucket_name, object_key, f1) ==
    /\ nCalls < MaxCalls
    /\ Operation("delete_object", <<bucket_name, object_key>>,
                 CloudManager_delete_object(bucket_name, object_key), f1, FALSE)

ListDir(bucket_name, prefix, f1) ==
    /\ nCalls < MaxCalls
    /\ Operation("list_dir", <<bucket_name, prefix>>,
                 CloudManager_list_dir(bucket_name, prefix), f1, FALSE)

NextCloud ==
    \/ \E p \in PathArgs, b \in BucketArgs, k \in KeyArgs, f1 \in BOOLEAN :
          Upload(p, b, k, f1)
    \/ \E b \in BucketArgs, k \in KeyArgs, p \in PathArgs, f1 \in BOOLEAN :
          Download(b, k, p, f1)
    \/ \E b \in BucketArgs, k, k2 \in KeyArgs, ds, f1, f2 \in BOOLEAN :
          Move(b, k, k2, ds, f1, f2)
    \/ \E b, b2 \in BucketArgs, k, k2 \in KeyArgs, ds, f1, f2 \in BOOLEAN :
          Transfer(b, k, b2, k2, ds, f1, f2)
    \/ \E b \in BucketArgs, k \in KeyArgs, f1 \in BOOLEAN : Delete(b, k, f1)
    \/ \E b \in BucketArgs, p \in PrefixArgs, f1 \in BOOLEAN : ListDir(b, p, f1)

SpecCloud == InitCloud /\ [][NextCloud]_vars

-----------------------------------------------------------------------------
(* Reading the record of the last CloudManager call *)

\* The source and destination of the last transfer_object call, and the
\* source and destination a move_object call is documented to have.
TransferSrc == <<last.args[1], last.args[2]>>
TransferDst == <<last.args[3], last.args[4]>>
MoveSrc == <<last.args[1], last.args[2]>>
MoveDst == <<last.args[1], last.args[3]>>

\* The provider failed a valid request of the last call.
ProviderFault == \E i \in DOMAIN last.api : last.api[i].outcome = "ProviderError"

ApiCalled(api) == \E i \in DOMAIN last.api : last.api[i].api = api

-----------------------------------------------------------------------------
(* C5 *)

\* C5: before the first call no AWSCloudManager exists; after one or more
\* calls exactly one has been constructed, it is the one _manager refers to
\* and the one that served the last call, and the call it received has the
\* name and the arguments, in order, of the CloudManager call.
C5_OneClientPureForward ==
    /\ nCalls = 0 => _manager = 0 /\ managers = <<>>
    /\ nCalls > 0 =>
          /\ Len(managers) = 1
          /\ _manager = 1
          /\ last.client = 1
          /\ last.forwarded = [op |-> last.op, args |-> last.args]

\* A second call, a transfer_object, was served by the client the first call
\* constructed.
C5_Witness ==
    /\ nCalls = 2
    /\ last.op = "transfer_object"
    /\ last.client = 1
    /\ Len(managers) = 1

-----------------------------------------------------------------------------
(* C6 *)

\* C6: a transfer_object call on an existing object that no request of
\* which failed leaves the object's content at the destination, the source
\* absent with delete_source and unchanged without, and every other entry of
\* the store as it was; and such a call to a different location fails only
\* when the provider fails a request.
C6_Transfer ==
    (last.op = "transfer_object" /\ last.before[TransferSrc] # None) =>
        /\ last.exc = NoExc =>
              /\ store[TransferDst] = last.before[TransferSrc]
              /\ last.args[5] => store[TransferSrc] = None
              /\ ~last.args[5] => store[TransferSrc] = last.before[TransferSrc]
              /\ \A l \in DOMAIN store \ {TransferSrc, TransferDst} :
                    store[l] = last.before[l]
        /\ (TransferSrc # TransferDst /\ ~ProviderFault) => last.exc = NoExc

\* An object was transferred to another bucket and another key with
\* delete_source, next to an object that stayed.
C6_Witness ==
    /\ last.op = "transfer_object"
    /\ last.exc = NoExc
    /\ last.args[5]
    /\ last.args[1] # last.args[3]
    /\ last.args[2] # last.args[4]
    /\ last.before[TransferSrc] # None
    /\ store[TransferDst] = last.before[TransferSrc]
    /\ store[TransferSrc] = None
    /\ \E l \in DOMAIN store \ {TransferSrc, TransferDst} : store[l] # None

-----------------------------------------------------------------------------
(* C7 *)

\* C7: a move_object call on an existing object, with no provider failure,
\* leaves the object's content at dest_object_key of the same bucket, the
\* source absent with delete_source and unchanged without, and reads no
\* local file.
C7_MoveWithinBucket ==
    (/\ last.op = "move_object"
     /\ last.before[MoveSrc] # None
     /\ MoveSrc # MoveDst
     /\ ~ProviderFault) =>
        /\ store[MoveDst] = last.before[MoveSrc]
        /\ last.args[4] => store[MoveSrc] = None
        /\ ~last.args[4] => store[MoveSrc] = last.before[MoveSrc]
        /\ ~ApiCalled("upload_file")

-----------------------------------------------------------------------------
(* C9 *)

\* C9: when the copy of a transfer_object call fails, the call raises the
\* copy's error, it made no other S3 request (no delete, no second copy) and
\* the store is as it was, so the source is still there; and a delete is
\* only ever the second request, after a copy that returned.
C9_NoDeleteAfterFailedCopy ==
    last.op = "transfer_object" =>
        /\ last.api[1].api = "copy_object"
        /\ last.api[1].outcome # "ok" =>
              /\ last.exc = Exc("copy_object", last.api[1].outcome)
              /\ Len(last.api) = 1
              /\ store = last.before
        /\ \A i \in DOMAIN last.api :
              last.api[i].api = "delete_object" =>
                  i = 2 /\ last.api[1].outcome = "ok"

\* The provider failed the copy of a transfer with delete_source of an
\* existing object, and the object is still at the source.
C9_Witness ==
    /\ last.op = "transfer_object"
    /\ last.args[5]
    /\ last.api[1].outcome = "ProviderError"
    /\ last.before[TransferSrc] # None
    /\ store[TransferSrc] = last.before[TransferSrc]

-----------------------------------------------------------------------------
(* The race specification: NThreads threads each make their first call on   *)
(* the same fresh CloudManager.  A thread may be preempted between any two  *)
(* of: the test "if not self._manager", the construction and assignment,    *)
(* the read of "return self._manager", and the same three steps of          *)
(* AWSCloudManager.s3_client on the object it got.                          *)

Threads == 1..NThreads

InitRace ==
    /\ _manager = 0
    /\ managers = <<>>
    /\ nS3Clients = 0
    /\ store = <<>>
    /\ fs = <<>>
    /\ last = <<>>
    /\ nCalls = 0
    /\ tpc = [t \in Threads |-> "call"]
    /\ sawNone = [t \in Threads |-> FALSE]
    /\ sawNoClient = [t \in Threads |-> FALSE]
    /\ tmanager = [t \in Threads |-> 0]
    /\ tclient = [t \in Threads |-> 0]
    /\ readonly_url = None
    /\ _db_ro = None
    /\ _session_ro = None
    /\ dbpc = "idle"
    /\ readonly = FALSE
    /\ _session = 0
    /\ sessions = <<>>
    /\ sessionsBefore = 0
    /\ bodyOutcome = "none"
    /\ raised = NoExc
    /\ nScopes = 0

\* if not self._manager:
ManagerCheck(t) ==
    /\ tpc[t] = "call"
    /\ sawNone' = [sawNone EXCEPT ![t] = (_manager = 0)]
    /\ tpc' = [tpc EXCEPT ![t] = IF _manager = 0 THEN "manager_construct"
                                 ELSE "manager_return"]
    /\ UNCHANGED <<dbVars, cmVars, s3Vars, sawNoClient, tmanager, tclient>>

\* self._manager = AWSCloudManager(self._config)
ManagerAssign(t) ==
    /\ tpc[t] = "manager_construct"
    /\ LET r == ManagerConstruct(World) IN
        /\ _manager' = r._manager
        /\ managers' = r.managers
    /\ tpc' = [tpc EXCEPT ![t] = "manager_return"]
    /\ UNCHANGED <<dbVars, nS3Clients, s3Vars, sawNone, sawNoClient, tmanager, tclient>>

\* return self._manager
ManagerReturn(t) ==
    /\ tpc[t] = "manager_return"
    /\ tmanager' = [tmanager EXCEPT ![t] = _manager]
    /\ tpc' = [tpc EXCEPT ![t] = "s3_call"]
    /\ UNCHANGED <<dbVars, cmVars, s3Vars, sawNone, sawNoClient, tclient>>

\* if not self._s3_client:   (self is the object the thread got)
S3ClientCheck(t) ==
    /\ tpc[t] = "s3_call"
    /\ sawNoClient' = [sawNoClient EXCEPT ![t] = (managers[tmanager[t]]._s3_client = 0)]
    /\ tpc' = [tpc EXCEPT ![t] = IF managers[tmanager[t]]._s3_client = 0
                                 THEN "s3_construct" ELSE "s3_return"]
    /\ UNCHANGED <<dbVars, cmVars, s3Vars, sawNone, tmanager, tclient>>

\* self._s3_client = session.client("s3", ...)
S3ClientAssign(t) ==
    /\ tpc[t] = "s3_construct"
    /\ LET r == S3ClientConstruct(World, tmanager[t]) IN
        /\ managers' = r.managers
        /\ nS3Clients' = r.nS3Clients
    /\ tpc' = [tpc EXCEPT ![t] = "s3_return"]
    /\ UNCHANGED <<dbVars, _manager, s3Vars, sawNone, sawNoClient, tmanager, tclient>>

\* return self._s3_client: the thread's request goes out on this client
S3ClientReturn(t) ==
    /\ tpc[t] = "s3_return"
    /\ tclient' = [tclient EXCEPT ![t] = managers[tmanager[t]]._s3_client]
    /\ tpc' = [tpc EXCEPT ![t] = "done"]
    /\ UNCHANGED <<dbVars, cmVars, s3Vars, sawNone, sawNoClient, tmanager>>

NextRace ==
    \E t \in Threads :
        \/ ManagerCheck(t)
        \/ ManagerAssign(t)
        \/ ManagerReturn(t)
        \/ S3ClientCheck(t)
        \/ S3ClientAssign(t)
        \/ S3ClientReturn(t)

SpecRace == InitRace /\ [][NextRace]_vars

-----------------------------------------------------------------------------
(* C8 *)

\* The threads that found the cache empty and have since run the
\* construction.
ManagerConstructors ==
    {t \in Threads : sawNone[t] /\ tpc[t] \notin {"call", "manager_construct"}}

S3ClientConstructors ==
    {t \in Threads :
        sawNoClient[t] /\ tpc[t] \notin
            {"call", "manager_construct", "manager_return", "s3_call", "s3_construct"}}

\* C8: nothing guards the test-then-construct of either lazy property: every
\* thread that found the cached value None constructs its own object,
\* whatever another thread has assigned in between, so as many
\* AWSCloudManager objects (and S3 clients) exist as threads found None.
C8_UnguardedLazyInit ==
    /\ Len(managers) = Cardinality(ManagerConstructors)
    /\ nS3Clients = Cardinality(S3ClientConstructors)

\* Two threads both found _manager None, two AWSCloudManager objects were
\* constructed, and the two calls were served by different objects and
\* different S3 clients.
C8_Witness ==
    \E t, u \in Threads :
        /\ tpc[t] = "done" /\ tpc[u] = "done"
        /\ sawNone[t] /\ sawNone[u]
        /\ Len(managers) > 1
        /\ tmanager[t] # tmanager[u]
        /\ tclient[t] # tclient[u]

=============================================================================
